---- MODULE Spec2Model ----
\* Power roll engine of the Draw Steel system (src/src/module/helpers/rolls.mjs):
\* DSRoll.render / _prepareContext, the PowerRoll constructor, its derived
\* getters (netBoon, product, tier, nat20, critical) and PowerRoll.prompt.
EXTENDS Integers, Sequences, FiniteSets, TLC

VARIABLES roll, args, lastOp, evalCalls, dieInputs, ctx, other, ctxOther, prompt, posted

vars == <<roll, args, lastOp, evalCalls, dieInputs, ctx, other, ctxOther, prompt, posted>>

(***************************************************************************)
(* Bounds of the model                                                     *)
(***************************************************************************)
\* edges / banes handed to the constructor range over -1..MaxInput
MaxInput == 5
\* edges / banes handed to the constructor in the life-cycle specification
MaxLifeInput == 2
\* cap on the counters of evaluate calls, die inputs and posted messages
MaxCalls == 2

(***************************************************************************)
(* JavaScript values                                                       *)
(***************************************************************************)
\* an optional number is <<>> (undefined) or <<n>>
Undefined == <<>>

Bool(b) == IF b THEN "true" ELSE "false"

Abs(n) == IF n < 0 THEN -n ELSE n

\* Math.sign
Sign(n) == IF n > 0 THEN 1 ELSE IF n < 0 THEN -1 ELSE 0

Max2(a, b) == IF a >= b THEN a ELSE b

Min2(a, b) == IF a <= b THEN a ELSE b

\* Math.clamp(num, min, max) of the host: Math.min(Math.max(num, min), max)
Clamp(num, min, max) == Min2(Max2(num, min), max)

(***************************************************************************)
(* Roll terms and formulas                                                 *)
(***************************************************************************)
Die(n, f) == [kind |-> "Die", number |-> n, faces |-> f, operator |-> "", flavor |-> ""]

OperatorTerm(o) == [kind |-> "Operator", number |-> 0, faces |-> 0, operator |-> o, flavor |-> ""]

NumericTerm(n, fl) == [kind |-> "Numeric", number |-> n, faces |-> 0, operator |-> "", flavor |-> fl]

\* game.i18n.localize of the two modifier keys used by the constructor
Localize(key) ==
  CASE key = "DRAW_STEEL.Roll.Power.Modifier.Edge" -> "Edge"
    [] key = "DRAW_STEEL.Roll.Power.Modifier.Bane" -> "Bane"
    [] OTHER -> key

\* A formula string is modelled as the sequence of its blank-separated tokens.
\* TermFormula is RollTerm.formula: the expression followed by [flavor].
TermFormula(t) ==
  CASE t.kind = "Die" /\ t.number = 2 /\ t.faces = 10 -> "2d10"
    [] t.kind = "Die" /\ t.number = 1 /\ t.faces = 20 -> "1d20"
    [] t.kind = "Operator" -> t.operator
    [] t.kind = "Numeric" /\ t.flavor = "" /\ t.number = 3 -> "3"
    [] t.kind = "Numeric" /\ t.flavor = "" /\ t.number = 5 -> "5"
    [] t.kind = "Numeric" /\ t.flavor = "Edge" /\ t.number = 2 -> "2[Edge]"
    [] t.kind = "Numeric" /\ t.flavor = "Bane" /\ t.number = 2 -> "2[Bane]"

\* Roll.parse of one token
ParseToken(tok) ==
  CASE tok = "2d10" -> Die(2, 10)
    [] tok = "1d20" -> Die(1, 20)
    [] tok = "+" -> OperatorTerm("+")
    [] tok = "-" -> OperatorTerm("-")
    [] tok = "3" -> NumericTerm(3, "")
    [] tok = "5" -> NumericTerm(5, "")
    [] tok = "2[Edge]" -> NumericTerm(2, "Edge")
    [] tok = "2[Bane]" -> NumericTerm(2, "Bane")

\* Roll.parse(formula): the term sequence of a formula
Parse(formula) == [i \in 1..Len(formula) |-> ParseToken(formula[i])]

\* Roll.getFormula(terms), used by resetFormula
GetFormula(terms) == [i \in 1..Len(terms) |-> TermFormula(terms[i])]

\* formulas a caller writes: the default, a one-die formula, a formula
\* without a die term and a formula whose first term is not the die term
Formulas == { <<"2d10">>, <<"1d20">>, <<"5">>, <<"3", "+", "2d10">> }

(***************************************************************************)
(* Roll objects                                                            *)
(***************************************************************************)
NoRoll == [cls |-> "none"]

NoArgs == [cls |-> "none"]

IsDie(t) == t.kind = "Die"

\* Roll.dice: the die terms of the roll, in order
Dice(r) == SelectSeq(r.terms, IsDie)

\* foundry.utils.mergeObject(original, other, {insertKeys: true,
\* insertValues: true, overwrite: false}): keys of other missing from
\* original are inserted, present keys keep their value
MergeObject(original, oth) ==
  [k \in (DOMAIN original) \cup (DOMAIN oth) |->
     IF k \in DOMAIN original THEN original[k] ELSE oth[k]]

\* assignment to one key of an object
SetKey(obj, key, val) ==
  [k \in (DOMAIN obj) \cup {key} |-> IF k = key THEN val ELSE obj[k]]

\* truthiness of options.appliedModifier (undefined when the key is absent)
AppliedModifierSet(options) ==
  "appliedModifier" \in DOMAIN options /\ options.appliedModifier = TRUE

DEFAULT_OPTIONS == [type |-> "test", criticalThreshold |-> 19, banes |-> 0, edges |-> 0]

VALID_TYPES == {"ability", "resistance", "test"}

MAX_EDGE == 2

MAX_BANE == 2

\* foundry.dice.Roll constructor: formula kept, terms parsed, options stored,
\* nothing evaluated
RollCtor(cls, formula, options) ==
  [cls |-> cls, formula |-> formula, terms |-> Parse(formula), options |-> options,
   evaluated |-> FALSE, total |-> Undefined, results |-> <<>>]

\* PowerRoll.netBoon over an options object
NetBoonOf(options) == options.edges - options.banes

\* InjectsModifier as it would be with the magnitude test widened to >= 1
InjectsModifierAnyBoon(callerOptions, options) ==
  ~AppliedModifierSet(callerOptions) /\ Abs(NetBoonOf(options)) >= 1

\* InjectsModifier as it would be without the appliedModifier test
InjectsModifierAgain(callerOptions, options) == Abs(NetBoonOf(options)) = 1

\* the condition of the constructor's modifier branch; callerOptions is the
\* constructor's own options argument
InjectsModifier(callerOptions, options) ==
  ~AppliedModifierSet(callerOptions) /\ Abs(NetBoonOf(options)) = 1

\* the two terms the modifier branch pushes
ModifierTerms(options) ==
  << OperatorTerm(IF NetBoonOf(options) > 0 THEN "+" ELSE "-"),
     NumericTerm(2, Localize(IF NetBoonOf(options) > 0
                             THEN "DRAW_STEEL.Roll.Power.Modifier.Edge"
                             ELSE "DRAW_STEEL.Roll.Power.Modifier.Bane")) >>

\* ClampOptions as it would be with the banes clamped from the edges value
ClampOptionsFromEdges(options) ==
  LET e == SetKey(options, "edges", Clamp(options.edges, 0, MAX_EDGE))
  IN  SetKey(e, "banes", Clamp(e.edges, 0, MAX_BANE))

\* clamping of the stored edges and banes
ClampOptions(options) ==
  LET e == SetKey(options, "edges", Clamp(options.edges, 0, MAX_EDGE))
  IN  SetKey(e, "banes", Clamp(e.banes, 0, MAX_BANE))

\* new PowerRoll(formula, data, options): [ok |-> FALSE] when it throws
PowerRollCtor(formula, options) ==
  LET base == RollCtor("PowerRoll", formula, options)
      merged == MergeObject(base.options, DEFAULT_OPTIONS)
  IN  IF merged.type \notin VALID_TYPES
      THEN [ok |-> FALSE, roll |-> NoRoll]
      ELSE LET clamped == ClampOptions(merged)
           IN  IF InjectsModifier(options, clamped)
               THEN LET terms == base.terms \o ModifierTerms(clamped)
                    IN  [ok |-> TRUE,
                         roll |-> [base EXCEPT !.terms = terms,
                                               !.formula = GetFormula(terms),
                                               !.options = SetKey(clamped, "appliedModifier", TRUE)]]
               ELSE [ok |-> TRUE, roll |-> [base EXCEPT !.options = clamped]]

\* new DSRoll(formula, data, options): the inherited constructor
DSRollCtor(formula, options) == [ok |-> TRUE, roll |-> RollCtor("DSRoll", formula, options)]

(***************************************************************************)
(* Evaluation by the host and the derived getters                          *)
(***************************************************************************)
\* totals one die term can show
DieTotals(t) == (t.number)..(t.number * t.faces)

\* the possible evaluated totals of the die terms of a roll, in order
ResultSets(r) ==
  LET d == Dice(r)
  IN  { s \in [1..Len(d) -> 1..20] : \A i \in 1..Len(d) : s[i] \in DieTotals(d[i]) }

RECURSIVE SumTerms(_, _, _)
\* the host's arithmetic over the evaluated terms, left to right
SumTerms(terms, results, sgn) ==
  IF terms = <<>> THEN 0
  ELSE LET t == Head(terms)
       IN  CASE t.kind = "Die" ->
                  sgn * Head(results) + SumTerms(Tail(terms), Tail(results), 1)
             [] t.kind = "Numeric" ->
                  sgn * t.number + SumTerms(Tail(terms), results, 1)
             [] t.kind = "Operator" ->
                  SumTerms(Tail(terms), results, IF t.operator = "-" THEN -1 ELSE 1)

\* Roll.evaluate on an unevaluated roll: die terms resolved, _total set
HostEvaluate(r, results) ==
  [r EXCEPT !.evaluated = TRUE, !.results = results,
            !.total = <<SumTerms(r.terms, results, 1)>>]

\* PowerRoll.validPowerRoll
ValidPowerRoll(r) ==
  /\ Len(r.terms) >= 1
  /\ r.terms[1].kind = "Die"
  /\ r.terms[1].faces = 10
  /\ r.terms[1].number = 2

\* PowerRoll.netBoon
NetBoon(r) == NetBoonOf(r.options)

\* PowerRoll.#RESULT_TIERS in key order; <<>> is the threshold -Infinity
RESULT_TIERS ==
  << [name |-> "tier1", label |-> "DRAW_STEEL.Roll.Power.Tiers.One", threshold |-> <<>>],
     [name |-> "tier2", label |-> "DRAW_STEEL.Roll.Power.Tiers.Two", threshold |-> <<12>>],
     [name |-> "tier3", label |-> "DRAW_STEEL.Roll.Power.Tiers.Three", threshold |-> <<17>>] >>

\* MeetsThreshold as it would be with a strict comparison
MeetsThresholdStrict(total, threshold) ==
  IF threshold = <<>> THEN 1 ELSE IF total > threshold[1] THEN 1 ELSE 0

\* Number(total >= threshold)
MeetsThreshold(total, threshold) ==
  IF threshold = <<>> THEN 1 ELSE IF total >= threshold[1] THEN 1 ELSE 0

RECURSIVE CountTiers(_, _, _)
\* the reduce over the tiers, starting from t
CountTiers(tiers, total, t) ==
  IF tiers = <<>> THEN t
  ELSE CountTiers(Tail(tiers), total, t + MeetsThreshold(total, Head(tiers).threshold))

\* the adjustment for a double edge or bane
TierAdjustment(netBoon) == netBoon - Sign(netBoon)

\* PowerRoll.product: <<>> when undefined
Product(r) ==
  IF r.total = Undefined THEN Undefined
  ELSE << Clamp(CountTiers(RESULT_TIERS, r.total[1], 0) + TierAdjustment(NetBoon(r)), 1, 3) >>

\* the template string `tier${this.product}`
TierString(n) ==
  CASE n = 1 -> "tier1" [] n = 2 -> "tier2" [] n = 3 -> "tier3" [] OTHER -> "tier" \o ToString(n)

\* PowerRoll.tier
Tier(r) == IF Product(r) = Undefined THEN "undefined" ELSE TierString(Product(r)[1])

\* PowerRoll.nat20: "true", "false" or "null"
Nat20(r) ==
  IF (r.total = Undefined) \/ ~ValidPowerRoll(r) THEN "null"
  ELSE Bool(r.results[1] >= 20)

\* Critical as it would be without the test of the roll type
CriticalAnyType(r) ==
  IF r.total = Undefined THEN "null"
  ELSE IF Len(Dice(r)) = 0 THEN "TypeError"
  ELSE Bool(r.results[1] >= r.options.criticalThreshold)

\* PowerRoll.critical: "true", "false", "null", or "TypeError" when reading
\* dice[0].total throws because the roll has no die term
Critical(r) ==
  IF r.options.type # "ability" THEN "null"
  ELSE IF r.total = Undefined THEN "null"
  ELSE IF Len(Dice(r)) = 0 THEN "TypeError"
  ELSE Bool(r.results[1] >= r.options.criticalThreshold)

(***************************************************************************)
(* Display contexts                                                        *)
(***************************************************************************)
NoCtx == [kind |-> "none"]

\* a context preparation that threw
ThrownCtx == [kind |-> "TypeError"]

\* game.user.id
UserId == "user"

RECURSIVE TooltipParts(_)
\* Roll.getTooltip: one part per evaluated die term
TooltipParts(results) ==
  IF results = <<>> THEN ""
  ELSE ("[" \o ToString(Head(results)) \o "]") \o TooltipParts(Tail(results))

\* Math.round(total * 100) / 100 of an integer total
Round2(t) == (t * 100) \div 100

\* flavor ?? this.options.flavor
FlavorOf(r, flavor) ==
  IF flavor # "undefined" THEN flavor
  ELSE IF "flavor" \in DOMAIN r.options THEN r.options.flavor ELSE "undefined"

\* DSRoll._prepareContext
BasePrepareContext(r, flavor, isPrivate) ==
  [formula |-> IF isPrivate THEN <<"???">> ELSE r.formula,
   flavor |-> IF isPrivate THEN "null" ELSE FlavorOf(r, flavor),
   user |-> UserId,
   tooltip |-> IF isPrivate THEN "" ELSE TooltipParts(r.results),
   total |-> IF isPrivate THEN "?" ELSE ToString(Round2(r.total[1]))]

\* RESULT_TIERS[name].label
TierLabel(name) ==
  LET i == CHOOSE j \in 1..Len(RESULT_TIERS) : RESULT_TIERS[j].name = name
  IN  RESULT_TIERS[i].label

\* the switch over netBoon in PowerRoll._prepareContext
ModString(netBoon) ==
  CASE netBoon = -2 -> "DRAW_STEEL.Roll.Power.Modifier.Banes"
    [] netBoon = -1 -> "DRAW_STEEL.Roll.Power.Modifier.Bane"
    [] netBoon = 1 -> "DRAW_STEEL.Roll.Power.Modifier.Edge"
    [] netBoon = 2 -> "DRAW_STEEL.Roll.Power.Modifier.Edges"
    [] OTHER -> ""

\* PowerRoll._prepareContext: the base context extended with tier, modifier
\* and critical; ThrownCtx when a getter it reads throws
PowerPrepareContext(r, flavor, isPrivate) ==
  LET context == BasePrepareContext(r, flavor, isPrivate)
  IN  IF Tier(r) = "undefined" \/ Critical(r) = "TypeError" THEN ThrownCtx
      ELSE [formula |-> context.formula,
            flavor |-> context.flavor,
            user |-> context.user,
            tooltip |-> context.tooltip,
            total |-> context.total,
            tier |-> [label |-> Localize(TierLabel(Tier(r))), class |-> Tier(r)],
            modifier |-> [number |-> Abs(NetBoon(r)), mod |-> Localize(ModString(NetBoon(r)))],
            critical |-> IF Critical(r) = "true" \/ Nat20(r) = "true" THEN "critical" ELSE ""]

\* this._prepareContext, dispatched on the class of the roll
PrepareContext(r, flavor, isPrivate) ==
  IF r.cls = "PowerRoll" THEN PowerPrepareContext(r, flavor, isPrivate)
  ELSE BasePrepareContext(r, flavor, isPrivate)

\* the outcomes of one call of Roll.evaluate({allowInteractive}): the host
\* rejects the call on an evaluated roll and leaves the roll as it is;
\* otherwise the dice are resolved, by manual input when the user is asked
EvaluateOutcomes(r, allowInteractive) ==
  IF r.evaluated
  THEN { [roll |-> r, inputs |-> 0, rejected |-> TRUE] }
  ELSE { [roll |-> HostEvaluate(r, res), inputs |-> i, rejected |-> FALSE] :
           res \in ResultSets(r),
           i \in (IF allowInteractive /\ Len(Dice(r)) > 0 THEN {0, 1} ELSE {0}) }

\* RenderEvaluates as it would be without the test of _evaluated
RenderEvaluatesAlways(r) == TRUE

\* the guard of DSRoll.render in front of its evaluate call
RenderEvaluates(r) == ~r.evaluated

(***************************************************************************)
(* Inputs                                                                  *)
(***************************************************************************)
\* objs, and objs extended by key with each of vals
WithKey(objs, key, vals) == objs \cup { SetKey(o, key, v) : o \in objs, v \in vals }

\* option objects of a caller: every key may be absent
CallerOptions(types, nums, applieds, thresholds, flavors) ==
  WithKey(WithKey(WithKey(WithKey(WithKey(WithKey({<<>>},
    "type", types), "edges", nums), "banes", nums),
    "appliedModifier", applieds), "criticalThreshold", thresholds), "flavor", flavors)

TypeInputs == VALID_TYPES \cup {"attack"}

WideOptions == CallerOptions(TypeInputs, (-1)..MaxInput, {TRUE, FALSE}, {}, {})

LifeOptions == CallerOptions(TypeInputs, 0..MaxLifeInput, {}, {18}, {})

BaseOptions == CallerOptions({}, {}, {}, {}, {"a flavor"})

RenderFlavors == {"undefined", "shown"}

(***************************************************************************)
(* Actions on one roll                                                     *)
(***************************************************************************)
PromptIdle ==
  [pc |-> "idle", type |-> "", evaluation |-> "", formula |-> <<>>, flavor |-> "",
   outcome |-> "none"]

\* new PowerRoll(formula, data, options) by a caller
Construct(formulas, options) ==
  /\ lastOp = "init"
  /\ \E f \in formulas, o \in options :
    LET res == PowerRollCtor(f, o)
    IN  /\ args' = [cls |-> "PowerRoll", formula |-> f, options |-> o]
        /\ roll' = res.roll
        /\ lastOp' = IF res.ok THEN "construct" ELSE "constructError"
        /\ evalCalls' = 0
        /\ dieInputs' = 0
        /\ ctx' = NoCtx
        /\ UNCHANGED <<other, ctxOther, prompt, posted>>

\* new DSRoll(formula, data, options) by a caller
ConstructBase(formulas, options) ==
  /\ lastOp = "init"
  /\ \E f \in formulas, o \in options :
    /\ args' = [cls |-> "DSRoll", formula |-> f, options |-> o]
    /\ roll' = DSRollCtor(f, o).roll
    /\ lastOp' = "construct"
    /\ evalCalls' = 0
    /\ dieInputs' = 0
    /\ ctx' = NoCtx
    /\ UNCHANGED <<other, ctxOther, prompt, posted>>

\* a PowerRoll re-created from the formula and options of the current one, as
\* the host's clone, reroll and fromData do
Reconstruct ==
  /\ roll.cls = "PowerRoll"
  /\ LET res == PowerRollCtor(roll.formula, roll.options)
     IN  /\ args' = [cls |-> "PowerRoll", formula |-> roll.formula, options |-> roll.options]
         /\ roll' = res.roll
         /\ lastOp' = "reconstruct"
  /\ evalCalls' = 0
  /\ dieInputs' = 0
  /\ ctx' = NoCtx
  /\ UNCHANGED <<other, ctxOther, prompt, posted>>

\* the caller drops the roll; the model follows one roll object at a time
Discard ==
  /\ lastOp # "init"
  /\ prompt.pc \in {"idle", "done"}
  /\ roll' = NoRoll
  /\ args' = NoArgs
  /\ lastOp' = "init"
  /\ evalCalls' = 0
  /\ dieInputs' = 0
  /\ ctx' = NoCtx
  /\ other' = NoRoll
  /\ ctxOther' = NoCtx
  /\ prompt' = PromptIdle
  /\ UNCHANGED posted

\* roll.evaluate() by a caller
Evaluate ==
  /\ roll.cls # "none"
  /\ evalCalls < MaxCalls
  /\ \E out \in EvaluateOutcomes(roll, TRUE) :
       /\ roll' = out.roll
       /\ dieInputs' = dieInputs + out.inputs
       /\ lastOp' = IF out.rejected THEN "evaluateRejected" ELSE "evaluate"
  /\ evalCalls' = evalCalls + 1
  /\ UNCHANGED <<args, ctx, other, ctxOther, prompt, posted>>

\* the outcomes of DSRoll.render({flavor, isPrivate}) on r: the roll after
\* the call, the evaluate calls and die inputs it made, and the context
\* handed to the template
RenderOutcomes(r, flavor, isPrivate) ==
  IF RenderEvaluates(r)
  THEN { [roll |-> out.roll, calls |-> 1, inputs |-> out.inputs,
          ctx |-> IF out.rejected THEN ThrownCtx
                  ELSE PrepareContext(out.roll, flavor, isPrivate)] :
           out \in EvaluateOutcomes(r, ~isPrivate) }
  ELSE { [roll |-> r, calls |-> 0, inputs |-> 0,
          ctx |-> PrepareContext(r, flavor, isPrivate)] }

\* roll.render({flavor, isPrivate}) by a caller
Render(flavors) ==
  \E flavor \in flavors, isPrivate \in BOOLEAN :
    /\ roll.cls # "none"
    /\ \E out \in RenderOutcomes(roll, flavor, isPrivate) :
         /\ evalCalls + out.calls <= MaxCalls
         /\ roll' = out.roll
         /\ evalCalls' = evalCalls + out.calls
         /\ dieInputs' = dieInputs + out.inputs
         /\ ctx' = out.ctx
    /\ lastOp' = IF isPrivate THEN "renderPrivate" ELSE "render"
    /\ UNCHANGED <<args, other, ctxOther, prompt, posted>>

InitCommon ==
  /\ roll = NoRoll
  /\ args = NoArgs
  /\ lastOp = "init"
  /\ evalCalls = 0
  /\ dieInputs = 0
  /\ ctx = NoCtx
  /\ other = NoRoll
  /\ ctxOther = NoCtx
  /\ prompt = PromptIdle
  /\ posted = 0

(***************************************************************************)
(* Construction of power rolls                                             *)
(***************************************************************************)
Init == InitCommon

ConstructWide == Construct(Formulas, WideOptions)

Next == ConstructWide \/ Reconstruct \/ Discard

Spec == Init /\ [][Next]_vars

(***************************************************************************)
(* Life cycle of one roll: constructed, evaluated, rendered                *)
(***************************************************************************)
ConstructLife == Construct(Formulas, LifeOptions)

ConstructDSRoll == ConstructBase(Formulas, BaseOptions)

RenderLife == Render({"undefined"})

NextLife == ConstructLife \/ ConstructDSRoll \/ Reconstruct \/ Evaluate \/ RenderLife \/ Discard

SpecLife == Init /\ [][NextLife]_vars

(***************************************************************************)
(* Properties of construction                                              *)
(***************************************************************************)
\* number of modifier pairs in a term sequence: an operator followed by the
\* numeric term 2 carrying the Edge or Bane label
InjectedPairs(terms) ==
  Cardinality({ i \in 1..(Len(terms) - 1) :
                  /\ terms[i].kind = "Operator"
                  /\ terms[i + 1].kind = "Numeric"
                  /\ terms[i + 1].number = 2
                  /\ terms[i + 1].flavor \in {"Edge", "Bane"} })

\* the value a supplied edge or bane count is stored as
StoredCount(x) == IF x > 2 THEN 2 ELSE IF x < 0 THEN 0 ELSE x

\* a PowerRoll has just been constructed from the arguments in args
Constructed == lastOp = "construct" /\ args.cls = "PowerRoll"

\* C3: after construction the stored edges equal the supplied edges clamped
\* to [0,2] and the stored banes equal the supplied banes clamped to [0,2],
\* each whatever the other is, and netBoon lies in [-2,2].
C3_ClampedAtConstruction ==
  Constructed =>
    /\ ("edges" \in DOMAIN args.options /\ args.options.edges >= 0)
         => roll.options.edges = StoredCount(args.options.edges)
    /\ ("banes" \in DOMAIN args.options /\ args.options.banes >= 0)
         => roll.options.banes = StoredCount(args.options.banes)
    /\ NetBoon(roll) \in (-2)..2

C3_Witness ==
  /\ Constructed
  /\ "edges" \in DOMAIN args.options
  /\ "banes" \in DOMAIN args.options
  /\ args.options.edges = 5
  /\ args.options.banes = 1
  /\ roll.options.edges = 2
  /\ roll.options.banes = 1

\* C2: a PowerRoll constructed without appliedModifier among the caller's
\* options has, when |edges - banes| = 1 for the stored values, exactly the
\* parsed terms followed by one operator term ("+" for a positive netBoon,
\* "-" for a negative one) and one numeric term of value 2, and
\* appliedModifier is true; when |edges - banes| is 0 or 2 its terms are the
\* parsed terms.
C2_ModifierInjection ==
  (Constructed /\ "appliedModifier" \notin DOMAIN args.options) =>
    LET n == roll.options.edges - roll.options.banes
        parsed == Parse(args.formula)
        k == Len(parsed)
    IN  IF n \in {1, -1}
        THEN /\ Len(roll.terms) = k + 2
             /\ SubSeq(roll.terms, 1, k) = parsed
             /\ roll.terms[k + 1].kind = "Operator"
             /\ roll.terms[k + 1].operator = (IF n > 0 THEN "+" ELSE "-")
             /\ roll.terms[k + 2].kind = "Numeric"
             /\ roll.terms[k + 2].number = 2
             /\ AppliedModifierSet(roll.options)
        ELSE /\ Len(roll.terms) = k
             /\ roll.terms = parsed

C2_Witness ==
  /\ Constructed
  /\ "appliedModifier" \notin DOMAIN args.options
  /\ roll.options.edges = 1
  /\ roll.options.banes = 2
  /\ Len(roll.terms) = Len(Parse(args.formula)) + 2
  /\ roll.terms[Len(roll.terms) - 1].operator = "-"

\* C8: appliedModifier is unset on a roll constructed without injection and
\* set on one constructed with it; a roll constructed with appliedModifier
\* already set gets no further terms; re-creating a roll from its own formula
\* and options keeps appliedModifier set and the terms as they are; and no
\* roll ever holds more than one injected modifier pair.
C8_NoDoubleInjection ==
  [][ /\ roll'.cls = "PowerRoll" => InjectedPairs(roll'.terms) <= 1
      /\ (lastOp' = "construct" /\ ~AppliedModifierSet(args'.options))
           => (AppliedModifierSet(roll'.options) <=> InjectedPairs(roll'.terms) = 1)
      /\ (lastOp' = "construct" /\ AppliedModifierSet(args'.options))
           => roll'.terms = Parse(args'.formula)
      /\ (lastOp' = "reconstruct" /\ AppliedModifierSet(roll.options))
           => /\ AppliedModifierSet(roll'.options)
              /\ roll'.terms = roll.terms
    ]_vars

C8_Witness ==
  /\ lastOp = "reconstruct"
  /\ AppliedModifierSet(roll.options)
  /\ Abs(NetBoon(roll)) = 1
  /\ InjectedPairs(roll.terms) = 1

(***************************************************************************)
(* Properties of the evaluated roll                                        *)
(***************************************************************************)
\* C1: the tier index of an evaluated PowerRoll with total T and netBoon n
\* is the number of thresholds (-infinity, 12, 17) that T reaches, moved one
\* step up for n = 2 and one step down for n = -2, kept within 1..3.
C1_TierDerivation ==
  (roll.cls = "PowerRoll" /\ roll.evaluated) =>
    LET T == roll.total[1]
        n == roll.options.edges - roll.options.banes
        c == IF T >= 17 THEN 3 ELSE IF T >= 12 THEN 2 ELSE 1
        adj == IF n = 2 THEN 1 ELSE IF n = -2 THEN -1 ELSE 0
        raw == c + adj
        expected == IF raw < 1 THEN 1 ELSE IF raw > 3 THEN 3 ELSE raw
    IN  /\ n \in (-2)..2
        /\ Product(roll) = <<expected>>
        /\ (T = 11 /\ n = 0) => Product(roll) = <<1>>
        /\ (T = 12 /\ n = 0) => Product(roll) = <<2>>
        /\ (T = 17 /\ n = 0) => Product(roll) = <<3>>
        /\ (T = 12 /\ n = 2) => Product(roll) = <<3>>
        /\ (T = 17 /\ n = -2) => Product(roll) = <<2>>
        /\ (n \in {1, -1}) => Product(roll) = <<c>>

C1_Witness ==
  /\ roll.cls = "PowerRoll"
  /\ roll.evaluated
  /\ roll.total = <<17>>
  /\ NetBoon(roll) = -2
  /\ Product(roll) = <<2>>

C4_NeverRaises ==
  (roll.cls = "PowerRoll" /\ (~roll.evaluated \/ ~ValidPowerRoll(roll))) =>
    /\ Critical(roll) # "TypeError"
    /\ Nat20(roll) # "TypeError"
    /\ Tier(roll) # "TypeError"

\* the steps that act on the current roll object
RollSteps == {"evaluate", "evaluateRejected", "render", "renderPrivate"}

PairFormulas == { <<"2d10">>, <<"1d20">>, <<"3", "+", "2d10">> }

\* fully specified power roll options
PairOptions == [type : VALID_TYPES, edges : 0..MAX_EDGE, banes : 0..MAX_BANE]

\* two rolls of one class built from the same options, apart from the flavor,
\* and from formulas that may differ
ConstructPair ==
  /\ lastOp = "init"
  /\ \E f \in PairFormulas, o \in PairOptions, power \in BOOLEAN :
       LET o1 == IF power THEN SetKey(o, "flavor", "one") ELSE [flavor |-> "one"]
           o2 == IF power THEN SetKey(o, "flavor", "two") ELSE [flavor |-> "two"]
       IN  /\ roll' = IF power THEN PowerRollCtor(<<"2d10">>, o1).roll
                      ELSE DSRollCtor(<<"2d10">>, o1).roll
           /\ other' = IF power THEN PowerRollCtor(f, o2).roll ELSE DSRollCtor(f, o2).roll
           /\ args' = [cls |-> IF power THEN "PowerRoll" ELSE "DSRoll",
                       formula |-> f, options |-> o2]
  /\ lastOp' = "constructPair"
  /\ UNCHANGED <<evalCalls, dieInputs, ctx, ctxOther, prompt, posted>>

\* both rolls rendered with the same isPrivate, each rolling its own dice
RenderPair ==
  /\ lastOp = "constructPair"
  /\ \E isPrivate \in BOOLEAN :
       /\ \E out \in RenderOutcomes(roll, "undefined", isPrivate) :
            /\ roll' = out.roll
            /\ ctx' = out.ctx
            /\ evalCalls' = evalCalls + out.calls
            /\ dieInputs' = dieInputs + out.inputs
       /\ \E out \in RenderOutcomes(other, "undefined", isPrivate) :
            /\ other' = out.roll
            /\ ctxOther' = out.ctx
       /\ lastOp' = IF isPrivate THEN "renderPairPrivate" ELSE "renderPair"
  /\ UNCHANGED <<args, prompt, posted>>

NextPrivacy == ConstructPair \/ RenderPair \/ Discard

SpecPrivacy == Init /\ [][NextPrivacy]_vars

\* C5: a context prepared with isPrivate = true, for a DSRoll as for a
\* PowerRoll, has formula "???", flavor null, tooltip "" and total "?", and
\* two rolls that differ only in formula, flavor, dice results and total
\* have the same private context.
C5_PrivateRender ==
  (lastOp = "renderPairPrivate") =>
    /\ "formula" \in DOMAIN ctx
    /\ "formula" \in DOMAIN ctxOther
    /\ ctx.formula = <<"???">>
    /\ ctx.flavor = "null"
    /\ ctx.tooltip = ""
    /\ ctx.total = "?"
    /\ ctxOther.formula = <<"???">>
    /\ ctxOther.flavor = "null"
    /\ ctxOther.tooltip = ""
    /\ ctxOther.total = "?"
    /\ ctx = ctxOther

(***************************************************************************)
(* PowerRoll.prompt                                                        *)
(***************************************************************************)
\* PowerRoll.#TYPES[type].label
TypeLabel(type) ==
  CASE type = "ability" -> "DRAW_STEEL.Roll.Power.Types.Ability"
    [] type = "resistance" -> "DRAW_STEEL.Roll.Power.Types.Resistance"
    [] type = "test" -> "DRAW_STEEL.Roll.Power.Types.Test"

EVALUATIONS == {"none", "evaluate", "message"}

\* options[key] ?? default
OrElse(options, key, default) == IF key \in DOMAIN options THEN options[key] ELSE default

\* option objects handed to prompt
PromptOptions ==
  WithKey(WithKey(WithKey(WithKey({<<>>},
    "type", TypeInputs), "evaluation", EVALUATIONS \cup {"chat"}),
    "formula", {<<"1d20">>}), "flavor", {"a flavor"})

\* what the ok callback collects from the form: the modifier counts the
\* dialog offers (modChoices), under the constructor's option names
FormValues == [edges : 0..2, banes : 0..2]

\* DialogOutcome as it would be with rejectClose: false: dismissing the form
\* resolves to null
DialogOutcomeOnCloseNull(confirmed, form) ==
  [rejected |-> FALSE, value |-> IF confirmed THEN form ELSE <<>>]

\* DialogV2.prompt as called, without rejectClose: false: confirming resolves
\* to the callback's value, dismissing the form rejects
DialogOutcome(confirmed, form) ==
  IF confirmed THEN [rejected |-> FALSE, value |-> form]
  ELSE [rejected |-> TRUE, value |-> <<>>]

\* the object literal {flavor, ...rollContext}
RollOptionsOf(flavor, rollContext) == MergeObject(rollContext, [flavor |-> flavor])

\* prompt(options) up to the dialog: the parameters are validated and the
\* dialog opens
PromptCall ==
  /\ lastOp = "init"
  /\ prompt.pc = "idle"
  /\ posted < MaxCalls
  /\ \E o \in PromptOptions :
       LET type == OrElse(o, "type", "test")
           evaluation == OrElse(o, "evaluation", "message")
           formula == OrElse(o, "formula", <<"2d10">>)
       IN  IF type \notin VALID_TYPES \/ evaluation \notin EVALUATIONS
           THEN /\ prompt' = [pc |-> "done", type |-> type, evaluation |-> evaluation,
                              formula |-> formula, flavor |-> "", outcome |-> "configError"]
                /\ lastOp' = "promptError"
           ELSE /\ prompt' = [pc |-> "dialog", type |-> type, evaluation |-> evaluation,
                              formula |-> formula,
                              flavor |-> OrElse(o, "flavor", Localize(TypeLabel(type))),
                              outcome |-> "none"]
                /\ lastOp' = "prompt"
  /\ UNCHANGED <<roll, args, evalCalls, dieInputs, ctx, other, ctxOther, posted>>

\* prompt after the dialog has settled with dlg: the roll is constructed and
\* handled as the evaluation mode says, or the rejection reaches the caller
PromptResume(dlg) ==
  IF dlg.rejected
  THEN /\ prompt' = [prompt EXCEPT !.pc = "done", !.outcome = "dismissed"]
       /\ UNCHANGED <<roll, args, evalCalls, dieInputs, posted>>
  ELSE LET rollOptions == RollOptionsOf(prompt.flavor, dlg.value)
           res == PowerRollCtor(prompt.formula, rollOptions)
       IN  /\ args' = [cls |-> "PowerRoll", formula |-> prompt.formula, options |-> rollOptions]
           /\ IF ~res.ok
              THEN /\ prompt' = [prompt EXCEPT !.pc = "done", !.outcome = "configError"]
                   /\ roll' = res.roll
                   /\ UNCHANGED <<evalCalls, dieInputs, posted>>
              ELSE IF prompt.evaluation = "none"
              THEN /\ prompt' = [prompt EXCEPT !.pc = "done", !.outcome = "roll"]
                   /\ roll' = res.roll
                   /\ UNCHANGED <<evalCalls, dieInputs, posted>>
              ELSE \E out \in EvaluateOutcomes(res.roll, TRUE) :
                     /\ roll' = out.roll
                     /\ evalCalls' = evalCalls + 1
                     /\ dieInputs' = dieInputs + out.inputs
                     /\ IF prompt.evaluation = "evaluate"
                        THEN /\ prompt' = [prompt EXCEPT !.pc = "done", !.outcome = "roll"]
                             /\ posted' = posted
                        ELSE /\ prompt' = [prompt EXCEPT !.pc = "done", !.outcome = "message"]
                             /\ posted' = posted + 1

\* the user confirms the form
PromptConfirm ==
  /\ prompt.pc = "dialog"
  /\ \E form \in FormValues : PromptResume(DialogOutcome(TRUE, form))
  /\ lastOp' = "confirm"
  /\ UNCHANGED <<ctx, other, ctxOther>>

\* the user dismisses the form without confirming
PromptDismiss ==
  /\ prompt.pc = "dialog"
  /\ PromptResume(DialogOutcome(FALSE, <<>>))
  /\ lastOp' = "dismiss"
  /\ UNCHANGED <<ctx, other, ctxOther>>

NextPrompt == PromptCall \/ PromptConfirm \/ PromptDismiss \/ Discard

SpecPrompt == Init /\ [][NextPrompt]_vars

\* C6: when the form is dismissed no PowerRoll is constructed, evaluated or
\* posted, and the outcome the caller sees is neither a roll, nor a message,
\* nor the configuration error.
C6_PromptCancellation ==
  [][ lastOp' = "dismiss" =>
        /\ roll = NoRoll
        /\ roll' = NoRoll
        /\ evalCalls' = evalCalls
        /\ dieInputs' = dieInputs
        /\ posted' = posted
        /\ prompt'.pc = "done"
        /\ prompt'.outcome \notin {"roll", "message", "configError"}
    ]_vars

C6_Witness ==
  /\ lastOp = "dismiss"
  /\ prompt.evaluation = "message"
  /\ prompt.outcome = "dismissed"
  /\ roll = NoRoll
  /\ posted = 1

\* C10: the roll a confirmed prompt constructs has the type the prompt was
\* asked for.
C10_PromptKeepsType ==
  (prompt.pc = "done" /\ prompt.outcome \in {"roll", "message"}) =>
    roll.options.type = prompt.type

====
